---- MODULE Spec2Model ----
(***************************************************************************)
(* Model of the SERP similarity analyzer (src/app.py):                     *)
(*   - the floating-point arithmetic the scores go through (IEEE-754       *)
(*     binary64, round-to-nearest-even), computed exactly on limbs because *)
(*     the 53-bit significands do not fit the checker's integers;          *)
(*   - difflib.SequenceMatcher(None, x, y).ratio() as app.py calls it;     *)
(*   - get_keyword_serp_diffs, one action per loop iteration;              *)
(*   - the per-keyword loop of the "Analyze" handler.                      *)
(***************************************************************************)
EXTENDS Integers, Sequences, FiniteSets, TLC

(***************************************************************************)
(* Natural numbers wider than 31 bits: little-endian sequences of limbs in *)
(* base LimbBase, without high zero limbs (zero is the empty sequence).    *)
(***************************************************************************)
Pow2(k) == 2 ^ k

\* F(v), with v computed once however often F uses it
With(v, F(_)) == CHOOSE r \in {F(w) : w \in {v}} : TRUE

LimbBits == 15

LimbBase == 2 ^ LimbBits

RECURSIVE BigNorm(_)
BigNorm(x) ==
    IF x = <<>> THEN <<>>
    ELSE IF x[Len(x)] = 0 THEN BigNorm(SubSeq(x, 1, Len(x) - 1))
    ELSE x

BigFromNat(n) ==
    BigNorm(<<n % LimbBase, (n \div LimbBase) % LimbBase,
              n \div (LimbBase * LimbBase)>>)

RECURSIVE BigToNatFrom(_, _)
BigToNatFrom(x, i) ==
    IF i > Len(x) THEN 0 ELSE x[i] + LimbBase * BigToNatFrom(x, i + 1)

\* Only for values known to fit (below 2^31).
BigToNat(x) == BigToNatFrom(x, 1)

RECURSIVE BigAddFrom(_, _, _, _)
BigAddFrom(x, y, i, carry) ==
    IF i > Len(x) /\ i > Len(y)
    THEN (IF carry = 0 THEN <<>> ELSE <<carry>>)
    ELSE LET s == (IF i <= Len(x) THEN x[i] ELSE 0)
                  + (IF i <= Len(y) THEN y[i] ELSE 0) + carry
         IN  <<s % LimbBase>> \o BigAddFrom(x, y, i + 1, s \div LimbBase)

BigAdd(x, y) == BigNorm(BigAddFrom(x, y, 1, 0))

RECURSIVE BigMulFrom(_, _, _, _)
BigMulFrom(x, c, i, carry) ==
    IF i > Len(x)
    THEN (IF carry = 0 THEN <<>> ELSE <<carry>>)
    ELSE LET p == x[i] * c + carry
         IN  <<p % LimbBase>> \o BigMulFrom(x, c, i + 1, p \div LimbBase)

\* x * c for 0 <= c <= LimbBase.
BigMulSmall(x, c) == BigNorm(BigMulFrom(x, c, 1, 0))

\* floor(x / d) and x mod d for 1 <= d <= LimbBase, from the high limb down.
RECURSIVE BigDivFrom(_, _, _, _)
BigDivFrom(x, d, i, rem) ==
    IF i = 0 THEN [q |-> <<>>, r |-> rem]
    ELSE LET cur  == rem * LimbBase + x[i]
             rest == BigDivFrom(x, d, i - 1, cur % d)
         IN  [q |-> rest.q \o <<cur \div d>>, r |-> rest.r]

BigDivSmall(x, d) ==
    LET res == BigDivFrom(x, d, Len(x), 0)
    IN  [q |-> BigNorm(res.q), r |-> res.r]

BigShl(x, k) ==
    IF x = <<>> THEN <<>>
    ELSE [i \in 1..(k \div LimbBits) |-> 0]
         \o BigMulSmall(x, Pow2(k % LimbBits))

\* x = (2*q + guard) * 2^(k-1) + low, 0 <= low < 2^(k-1), sticky <=> low # 0;
\* for k >= 1.
BigShr(x, k) ==
    LET w     == (k - 1) \div LimbBits
        lowl  == SubSeq(x, 1, IF w < Len(x) THEN w ELSE Len(x))
        high  == IF w < Len(x) THEN SubSeq(x, w + 1, Len(x)) ELSE <<>>
        Halve(d1) ==
            LET Parts(d2) ==
                    [q      |-> d2.q,
                     guard  |-> d2.r = 1,
                     sticky |-> d1.r # 0 \/ \E i \in 1..Len(lowl) : lowl[i] # 0]
            IN  With(BigDivSmall(d1.q, 2), Parts)
    IN  With(BigDivSmall(high, Pow2((k - 1) % LimbBits)), Halve)

RECURSIVE NatBitLen(_)
NatBitLen(n) == IF n = 0 THEN 0 ELSE 1 + NatBitLen(n \div 2)

BigBitLen(x) ==
    IF x = <<>> THEN 0
    ELSE LimbBits * (Len(x) - 1) + NatBitLen(x[Len(x)])

BigIsOdd(x) == x # <<>> /\ x[1] % 2 = 1

\* x < y, from the high limb down.
RECURSIVE BigLessFrom(_, _, _)
BigLessFrom(x, y, i) ==
    IF i = 0 THEN FALSE
    ELSE IF x[i] # y[i] THEN x[i] < y[i]
    ELSE BigLessFrom(x, y, i - 1)

BigLess(x, y) ==
    IF Len(x) # Len(y) THEN Len(x) < Len(y) ELSE BigLessFrom(x, y, Len(x))

(***************************************************************************)
(* Python floats: non-negative IEEE-754 binary64 values m * 2^e with a     *)
(* 53-bit significand m (a limb sequence), or zero.  Every operation is    *)
(* the exact result rounded to nearest, ties to even.  The values the      *)
(* program computes are ratios and means in [0, 1] and their hundredfolds: *)
(* no negative, subnormal, infinite or NaN value arises.                   *)
(***************************************************************************)
MantBits == 53

FZero == [m |-> <<>>, e |-> 0]

\* The double nearest to (n + d) * 2^e, where 0 <= d < 1 and d # 0 iff sticky
\* (sticky only with n of more than MantBits bits).
RoundBigOf(n, e, sticky) ==
    LET bl == BigBitLen(n)
        t  == bl - MantBits
        Rounded(sh) ==
            LET up == sh.guard /\ (sh.sticky \/ sticky \/ BigIsOdd(sh.q))
                Normal(m1) ==
                    IF BigBitLen(m1) > MantBits
                    THEN [m |-> BigShr(m1, 1).q, e |-> e + t + 1]
                    ELSE [m |-> m1, e |-> e + t]
            IN  With(IF up THEN BigAdd(sh.q, <<1>>) ELSE sh.q, Normal)
    IN  IF bl = 0 THEN FZero
        ELSE IF bl <= MantBits
        THEN [m |-> BigShl(n, MantBits - bl), e |-> e - (MantBits - bl)]
        ELSE With(BigShr(n, t), Rounded)

RoundBig(n, e, sticky) ==
    LET Of(w) == RoundBigOf(w, e, sticky) IN With(n, Of)

\* float(p) / float(q) for integers 0 <= p, 1 <= q <= LimbBase: the double
\* nearest to p/q.
FFromRatio(p, q) ==
    LET Of(d) == RoundBig(d.q, -(4 * LimbBits), d.r # 0)
    IN  With(BigDivSmall(BigShl(BigFromNat(p), 4 * LimbBits), q), Of)

FFromNat(n) == FFromRatio(n, 1)

\* x + y
FAddOf(x, y) ==
    IF x.m = <<>> THEN y
    ELSE IF y.m = <<>> THEN x
    ELSE LET e0 == IF x.e < y.e THEN x.e ELSE y.e
         IN  RoundBig(BigAdd(BigShl(x.m, x.e - e0), BigShl(y.m, y.e - e0)),
                      e0, FALSE)

FAdd(x, y) ==
    LET Of(xy) == FAddOf(xy[1], xy[2]) IN With(<<x, y>>, Of)

\* x / n for an integer 1 <= n <= LimbBase
FDivNat(x, n) ==
    LET Of(w) ==
            LET Quot(d) == RoundBig(d.q, w.e - 2 * LimbBits, d.r # 0)
            IN  With(BigDivSmall(BigShl(w.m, 2 * LimbBits), n), Quot)
    IN  With(x, Of)

\* x * c for an integer 0 <= c <= LimbBase
FMulNat(x, c) ==
    LET Of(w) == RoundBig(BigMulSmall(w.m, c), w.e, FALSE) IN With(x, Of)

\* floor(x): int(x) for x >= 0
FTruncOf(x) ==
    IF x.m = <<>> THEN 0
    ELSE IF x.e >= 0 THEN BigToNat(BigShl(x.m, x.e))
    ELSE IF -x.e >= BigBitLen(x.m) + 1 THEN 0
    ELSE BigToNat(BigShr(x.m, -x.e).q)

FTrunc(x) == With(x, FTruncOf)

\* The integer nearest to x * c exactly (no intermediate rounding), ties to
\* even.
FNearestMulOf(x, c) ==
    LET Nearest(p) ==
            LET Up(sh) ==
                    BigToNat(sh.q)
                    + (IF sh.guard /\ (sh.sticky \/ BigIsOdd(sh.q)) THEN 1 ELSE 0)
            IN  IF p = <<>> THEN 0
                ELSE IF x.e >= 0 THEN BigToNat(BigShl(p, x.e))
                ELSE IF -x.e > BigBitLen(p) + 1 THEN 0
                ELSE With(BigShr(p, -x.e), Up)
    IN  With(BigMulSmall(x.m, c), Nearest)

FNearestMul(x, c) ==
    LET Of(w) == FNearestMulOf(w, c) IN With(x, Of)

\* round(x, 2): x is converted to the correctly rounded decimal with two
\* digits after the point (half-even on x's exact binary value) and that
\* decimal is read back as the nearest double.
FRound2(x) == FFromRatio(FNearestMul(x, 100), 100)

\* x < y
FLess(x, y) ==
    IF y.m = <<>> THEN FALSE
    ELSE IF x.m = <<>> THEN TRUE
    ELSE IF x.e # y.e THEN x.e < y.e
    ELSE BigLess(x.m, y.m)

FLeq(x, y) == x = y \/ FLess(x, y)

(***************************************************************************)
(* difflib.SequenceMatcher(None, a, b) as line 134 of app.py builds it:    *)
(* isjunk is None and autojunk keeps its default, True.  Sequences are     *)
(* TLA+ sequences (first element at 1); the positions alo, ahi, blo, bhi,  *)
(* i, j are difflib's 0-based offsets, so a[i] of the code is a[i + 1].    *)
(***************************************************************************)
AutojunkMinLen == 200

AutojunkDivisor == 100

Range(s) == {s[i] : i \in 1..Len(s)}

Min(S) == CHOOSE x \in S : \A y \in S : x <= y

Max(S) == CHOOSE x \in S : \A y \in S : y <= x

\* __chain_b, junk part: no isjunk function is given, so no element is junk.
BJunk(b) == {}

\* __chain_b, popular part: with autojunk on and len(b) >= 200, the elements
\* occurring more than len(b) // 100 + 1 times are dropped from b2j.
BPopular(b) ==
    IF Len(b) >= AutojunkMinLen
    THEN LET ntest == Len(b) \div AutojunkDivisor + 1
         IN  {elt \in Range(b) :
                Cardinality({j \in 1..Len(b) : b[j] = elt}) > ntest}
    ELSE {}

\* b2j that lists j for a[i] only from the diagonal on
InB2jUpper(a, b, dropped, i, j) ==
    a[i + 1] = b[j + 1] /\ b[j + 1] \notin dropped /\ i <= j

\* j is listed in b2j[a[i]]
InB2j(a, b, dropped, i, j) == a[i + 1] = b[j + 1] /\ b[j + 1] \notin dropped

\* How many steps t = 0, 1, ... a loop takes that stops at the first t failing
\* Ok, and after lim steps at the latest.
RunOf(lim, Ok(_)) == Min({t \in 0..lim : t = lim \/ ~Ok(t)})

\* find_longest_match, the double loop over a[alo:ahi] and b2j: the block of
\* b2j hits that is longest, and among the longest the first one reached.
BestInB2j(a, b, dropped, alo, ahi, blo, bhi) ==
    LET \* the pairs (i, j) the loops visit with j in b2j[a[i]]
        Hits == {h \in (alo..(ahi - 1)) \X (blo..(bhi - 1)) :
                    InB2j(a, b, dropped, h[1], h[2])}
        \* k = newj2len[j] = j2len.get(j - 1, 0) + 1 at (i, j): the hits that
        \* end there on one diagonal, inside the window
        K(h) == LET lim == Min({h[1] - alo, h[2] - blo}) + 1
                    Ok(t) == InB2j(a, b, dropped, h[1] - t, h[2] - t)
                IN  RunOf(lim, Ok)
        \* "if k > bestsize": the first pair, in visiting order (i ascending,
        \* then j ascending), that reaches the largest k
        First(Ks) ==
            LET AmongLongest(kmax) ==
                    LET ends == {hk[1] : hk \in {x \in Ks : x[2] = kmax}}
                        AtRow(iend) ==
                            LET jend == Min({h[2] : h \in {x \in ends : x[1] = iend}})
                            IN  [i |-> iend - kmax + 1, j |-> jend - kmax + 1,
                                 k |-> kmax]
                    IN  With(Min({h[1] : h \in ends}), AtRow)
            IN  IF Ks = {}
                THEN [i |-> alo, j |-> blo, k |-> 0]
                ELSE With(Max({hk[2] : hk \in Ks}), AmongLongest)
    IN  With({<<h, K(h)>> : h \in Hits}, First)

\* find_longest_match, a backward extension loop: while besti > alo and
\* bestj > blo and isbjunk(b[bestj-1]) is isjunk and a[besti-1] == b[bestj-1]
ExtendBack(a, b, junk, alo, blo, m, isjunk) ==
    LET lim == Min({m.i - alo, m.j - blo})
        Ok(t) == /\ (b[m.j - t] \in junk) = isjunk
                 /\ a[m.i - t] = b[m.j - t]
        By(e) == [i |-> m.i - e, j |-> m.j - e, k |-> m.k + e]
    IN  With(RunOf(lim, Ok), By)

\* a forward extension loop that never runs
NoExtendForth(a, b, junk, ahi, bhi, m, isjunk) == m

\* find_longest_match, a forward extension loop: while besti+bestsize < ahi
\* and bestj+bestsize < bhi and isbjunk(b[bestj+bestsize]) is isjunk and
\* a[besti+bestsize] == b[bestj+bestsize]
ExtendForth(a, b, junk, ahi, bhi, m, isjunk) ==
    LET lim == Min({ahi - (m.i + m.k), bhi - (m.j + m.k)})
        Ok(t) == /\ (b[m.j + m.k + t + 1] \in junk) = isjunk
                 /\ a[m.i + m.k + t + 1] = b[m.j + m.k + t + 1]
    IN  [m EXCEPT !.k = m.k + RunOf(lim, Ok)]

\* find_longest_match(alo, ahi, blo, bhi): the best b2j block, extended over
\* non-junk elements on both sides, then over junk elements on both sides.
FindLongestMatch(a, b, junk, popular, alo, ahi, blo, bhi) ==
    LET Back1(m) == ExtendBack(a, b, junk, alo, blo, m, FALSE)
        Forth1(m) == ExtendForth(a, b, junk, ahi, bhi, m, FALSE)
        Back2(m) == ExtendBack(a, b, junk, alo, blo, m, TRUE)
        Forth2(m) == ExtendForth(a, b, junk, ahi, bhi, m, TRUE)
        m0 == BestInB2j(a, b, junk \cup popular, alo, ahi, blo, bhi)
    IN  With(With(With(With(m0, Back1), Forth1), Back2), Forth2)

\* get_matching_blocks, the queue loop: the blocks found in a window and in
\* the windows left and right of each block.
RECURSIVE BlocksIn(_, _, _, _, _, _, _, _)
BlocksIn(a, b, junk, popular, alo, ahi, blo, bhi) ==
    LET Around(x) ==
            IF x.k = 0 THEN {}
            ELSE {x}
                 \cup (IF alo < x.i /\ blo < x.j
                       THEN BlocksIn(a, b, junk, popular, alo, x.i, blo, x.j)
                       ELSE {})
                 \cup (IF x.i + x.k < ahi /\ x.j + x.k < bhi
                       THEN BlocksIn(a, b, junk, popular,
                                     x.i + x.k, ahi, x.j + x.k, bhi)
                       ELSE {})
    IN  With(FindLongestMatch(a, b, junk, popular, alo, ahi, blo, bhi), Around)

\* matching_blocks.sort(): by i (the blocks of one run have distinct i)
RECURSIVE SortBlocks(_)
SortBlocks(S) ==
    IF S = {} THEN <<>>
    ELSE LET first == CHOOSE x \in S : \A y \in S : x.i <= y.i
         IN  <<first>> \o SortBlocks(S \ {first})

\* get_matching_blocks, the merge loop: adjacent blocks are collapsed; cur is
\* (i1, j1, k1)
RECURSIVE Collapse(_, _, _)
CollapseOf(blocks, n, cur) ==
    IF n > Len(blocks)
    THEN (IF cur.k # 0 THEN <<cur>> ELSE <<>>)
    ELSE LET nxt == blocks[n]
         IN  IF cur.i + cur.k = nxt.i /\ cur.j + cur.k = nxt.j
             THEN Collapse(blocks, n + 1, [cur EXCEPT !.k = cur.k + nxt.k])
             ELSE (IF cur.k # 0 THEN <<cur>> ELSE <<>>)
                  \o Collapse(blocks, n + 1, nxt)

Collapse(blocks, n, cur) ==
    LET Of(c) == CollapseOf(blocks, n, c) IN With(cur, Of)

GetMatchingBlocks(a, b, junk, popular) ==
    LET Merged(sorted) == Collapse(sorted, 1, [i |-> 0, j |-> 0, k |-> 0])
    IN  With(SortBlocks(BlocksIn(a, b, junk, popular, 0, Len(a), 0, Len(b))),
             Merged)
        \o <<[i |-> Len(a), j |-> Len(b), k |-> 0]>>

RECURSIVE SumSizes(_, _)
SumSizes(blocks, n) ==
    IF n > Len(blocks) THEN 0 ELSE blocks[n].k + SumSizes(blocks, n + 1)

\* matches = sum(triple[-1] for triple in self.get_matching_blocks())
Matches(a, b, junk, popular) ==
    LET Total(blocks) == SumSizes(blocks, 1)
    IN  With(GetMatchingBlocks(a, b, junk, popular), Total)

\* _calculate_ratio testing matches where it tests length
CalculateRatioByMatches(matches, length) ==
    IF matches # 0 THEN FDivNat(FMulNat(FFromNat(2), matches), length)
    ELSE FFromNat(1)

\* _calculate_ratio returning 0.0 for two empty sequences
CalculateRatioEmptyZero(matches, length) ==
    IF length # 0 THEN FDivNat(FMulNat(FFromNat(2), matches), length)
    ELSE FZero

\* _calculate_ratio(matches, length)
CalculateRatio(matches, length) ==
    IF length # 0 THEN FDivNat(FMulNat(FFromNat(2), matches), length)
    ELSE FFromNat(1)

\* SequenceMatcher(None, a, b).ratio()
Ratio(a, b) ==
    LET Of(matches) == CalculateRatio(matches, Len(a) + Len(b))
    IN  With(Matches(a, b, BJunk(b), BPopular(b)), Of)

(***************************************************************************)
(* Bounds of the model.  Tokens (domains, URLs) are opaque: naturals.      *)
(***************************************************************************)
\* keywords per analysis run
MaxKeywords == 3

\* results per keyword in the batches given to get_keyword_serp_diffs
MaxResults == 2

\* length of the short sequences given to the matcher alone
MaxRatioLen == 3

DiffTokens == {1, 2}

RatioTokens == {1, 2, 3}

SeqsUpTo(T, n) == UNION {[1..k -> T] : k \in 0..n}

\* A long sequence: the pattern s before or after a run of one token that
\* fills it to the length at which the matcher starts dropping popular
\* elements.
PadToken == CHOOSE t \in RatioTokens : \A u \in RatioTokens : t <= u

PadRight(s) == s \o [k \in 1..(AutojunkMinLen - Len(s)) |-> PadToken]

PadLeft(s) == [k \in 1..(AutojunkMinLen - Len(s)) |-> PadToken] \o s

ShortSeqs == SeqsUpTo(RatioTokens, MaxRatioLen)

LongSeqs == {PadRight(s) : s \in ShortSeqs} \cup {PadLeft(s) : s \in ShortSeqs}

DiffSeqs == SeqsUpTo(DiffTokens, MaxResults)

Batches == UNION {[1..n -> DiffSeqs] : n \in 1..MaxKeywords}

(***************************************************************************)
(* Python numbers in keyword_diffs: the rounded means are floats, the      *)
(* fallback is the int 1.                                                  *)
(***************************************************************************)
PyFloat(f) == [type |-> "float", val |-> f]

PyInt(n) == [type |-> "int", val |-> n]

\* v * 100 that leaves an int as it is
PyTimes100FloatOnly(v) ==
    IF v.type = "int" THEN v ELSE PyFloat(FMulNat(v.val, 100))

\* v * 100
PyTimes100(v) ==
    IF v.type = "int" THEN PyInt(v.val * 100)
    ELSE PyFloat(FMulNat(v.val, 100))

\* int(v)
PyToInt(v) == IF v.type = "int" THEN v.val ELSE FTrunc(v.val)

(***************************************************************************)
(* get_keyword_serp_diffs (app.py 126-143)                                 *)
(***************************************************************************)
\* "if x != y": Python compares the two lists by value
ListsDiffer(x, y) == x # y

\* sm = difflib.SequenceMatcher(None, x, y); sm.ratio().  The ratios of the
\* sequences of the bounded batches are computed once and looked up.
RatioMemo == [p \in DiffSeqs \X DiffSeqs |-> Ratio(p[1], p[2])] @@ <<>>

SmRatioOf(x, y) == RatioMemo[<<x, y>>]

\* The inner loop "for y in serp_comp" for the x at position xi: the ratios
\* appended to diffs, from position n on.
RECURSIVE InnerLoop(_, _, _)
InnerLoop(sc, xi, n) ==
    IF n > Len(sc) THEN <<>>
    ELSE (IF ListsDiffer(sc[xi], sc[n]) THEN <<SmRatioOf(sc[xi], sc[n])>> ELSE <<>>)
         \o InnerLoop(sc, xi, n + 1)

\* sum(diffs) for a non-empty list of floats: 0 + d1 + d2 + ..., left to
\* right (0 + d1 is d1 exactly)
RECURSIVE SumFloats(_, _)
SumFloats(d, n) ==
    IF n = 0 THEN FZero ELSE FAdd(SumFloats(d, n - 1), d[n])

\* round(sum(diffs)/len(diffs), 2), for len(diffs) > 0
RoundedMean(d) ==
    LET Mean(total) == FRound2(FDivNat(total, Len(d)))
    IN  With(SumFloats(d, Len(d)), Mean)

\* The rounded means of the ratio lists the bounded batches give, computed
\* once and looked up.
MeanMemo ==
    LET Means(memo) ==
            [d \in SeqsUpTo({memo[p] : p \in DOMAIN memo}, MaxKeywords - 1) \ {<<>>}
               |-> RoundedMean(d)] @@ <<>>
    IN  With(RatioMemo, Means)

RoundedMeanOf(d) == MeanMemo[d]

\* an except branch appending 0.0
FallbackZero == PyFloat(FZero)

\* the value appended in the except branch
FallbackDiff == PyInt(1)

\* an insert at the front in place of the append
PrependDiff(list, v) == <<v>> \o list

\* keyword_diffs.append(v)
AppendDiff(list, v) == Append(list, v)

\* What one iteration of "for x in serp_comp" appends for the x at position
\* k: the rounded mean of its ratios, or the fallback.
KeywordDiff(sc, k) ==
    LET Of(d) == IF Len(d) = 0 THEN FallbackDiff ELSE PyFloat(RoundedMeanOf(d))
    IN  With(InnerLoop(sc, k, 1), Of)

\* int(x*100)
Percent(v) == PyToInt(PyTimes100(v))

\* The percentages of the values keyword_diffs can hold (a float with two
\* decimals in [0, 1], or the int 1), computed once and looked up.
PercentMemo ==
    [v \in {PyFloat(FFromRatio(k, 100)) : k \in 0..100} \cup {PyInt(1)}
       |-> Percent(v)] @@ <<>>

PercentOf(v) == PercentMemo[v]

\* [int(x*100) for x in keyword_diffs]
ConvertDiffs(list) == [k \in 1..Len(list) |-> PercentOf(list[k])]

VARIABLES
    pc,              \* where the program is
    keywords,        \* the handler's keywords (their texts abstracted to ids)
    comp_type,       \* "Domain only" or "Full URL"
    kw_done,         \* keywords the handler's loop has gone through
    responses,       \* what serp() returned for the keywords gone through
    serp_comp_list,  \* the handler's list of result sequences
    df,              \* the DataFrame's rows, once built
    serp_comp,       \* get_keyword_serp_diffs: its argument
    x_done,          \* get_keyword_serp_diffs: outer iterations completed
    diffs,           \* get_keyword_serp_diffs: diffs after the last inner loop
    keyword_diffs,   \* get_keyword_serp_diffs: keyword_diffs
    scores,          \* get_keyword_serp_diffs: the list returned
    sm_a,            \* SequenceMatcher: a
    sm_b,            \* SequenceMatcher: b
    sm_bpopular,     \* SequenceMatcher: bpopular
    sm_blocks,       \* SequenceMatcher: matching_blocks
    sm_ratio         \* SequenceMatcher: the value ratio() returned

handlerVars == <<keywords, comp_type, kw_done, responses, serp_comp_list, df>>

diffsVars == <<serp_comp, x_done, diffs, keyword_diffs, scores>>

smVars == <<sm_a, sm_b, sm_bpopular, sm_blocks, sm_ratio>>

vars == <<pc, handlerVars, diffsVars, smVars>>

\* One iteration of "for x in serp_comp" whose mean is computed.
KeywordMean ==
    /\ pc = "diffs"
    /\ x_done < Len(serp_comp)
    /\ \E d \in {InnerLoop(serp_comp, x_done + 1, 1)} :
           /\ Len(d) # 0
           /\ diffs' = d
           /\ keyword_diffs' = AppendDiff(keyword_diffs, PyFloat(RoundedMeanOf(d)))
    /\ x_done' = x_done + 1
    /\ UNCHANGED <<pc, serp_comp, scores, handlerVars, smVars>>

\* One iteration whose diffs is empty: sum(diffs)/len(diffs) raises
\* ZeroDivisionError and the except branch appends 1.
KeywordFallback ==
    /\ pc = "diffs"
    /\ x_done < Len(serp_comp)
    /\ \E d \in {InnerLoop(serp_comp, x_done + 1, 1)} :
           /\ Len(d) = 0
           /\ diffs' = d
           /\ keyword_diffs' = AppendDiff(keyword_diffs, FallbackDiff)
    /\ x_done' = x_done + 1
    /\ UNCHANGED <<pc, serp_comp, scores, handlerVars, smVars>>

\* After the loop: the conversion to percentages and the return.
ReturnScores ==
    /\ pc = "diffs"
    /\ x_done = Len(serp_comp)
    /\ scores' = ConvertDiffs(keyword_diffs)
    /\ pc' = "returned"
    /\ UNCHANGED <<serp_comp, x_done, diffs, keyword_diffs, handlerVars, smVars>>

NextDiffs == KeywordMean \/ KeywordFallback \/ ReturnScores

(***************************************************************************)
(* The matcher alone: SequenceMatcher(None, a, b), then ratio().           *)
(***************************************************************************)
\* __init__ -> set_seqs -> __chain_b
SmChainB ==
    /\ pc = "sm_new"
    /\ sm_bpopular' = BPopular(sm_b)
    /\ pc' = "sm_chained"
    /\ UNCHANGED <<sm_a, sm_b, sm_blocks, sm_ratio, handlerVars, diffsVars>>

\* ratio(): get_matching_blocks() (kept in self.matching_blocks), then
\* _calculate_ratio
SmRatio ==
    /\ pc = "sm_chained"
    /\ \E blocks \in {GetMatchingBlocks(sm_a, sm_b, BJunk(sm_b), sm_bpopular)} :
           /\ sm_blocks' = blocks
           /\ sm_ratio' = CalculateRatio(SumSizes(blocks, 1), Len(sm_a) + Len(sm_b))
    /\ pc' = "sm_done"
    /\ UNCHANGED <<sm_a, sm_b, sm_bpopular, handlerVars, diffsVars>>

NextRatio == SmChainB \/ SmRatio

(***************************************************************************)
(* The API responses and their extraction (get_serp_comp, app.py 59-123,   *)
(* and the "Full URL" branch of the handler, app.py 249-299).  A response  *)
(* is a JSON object: its members in order, each a pair <<key, value>>; a   *)
(* value is a list of items or something else; an item is an object (its   *)
(* fields in order, each a pair <<name, text>>) or something that is no    *)
(* container.  A URL is a natural number, EmptyUrl the empty string.       *)
(***************************************************************************)
\* "", which "if url:" takes for false like the None of an item without a
\* URL field
EmptyUrl == 0

\* key in obj
HasKey(obj, key) == \E n \in 1..Len(obj) : obj[n][1] = key

\* obj[key], for a key in obj
Get(obj, key) == obj[Min({n \in 1..Len(obj) : obj[n][1] = key})][2]

potential_keys == <<"organic_results", "search_results", "results", "organic">>

\* organic_key = None
NoKey == "None"

\* for key in potential_keys: if key in results and
\* isinstance(results[key], list): organic_key = key; break
StandardKey(results) ==
    LET found == {n \in 1..Len(potential_keys) :
                    /\ HasKey(results, potential_keys[n])
                    /\ Get(results, potential_keys[n]).islist}
    IN  IF found = {} THEN NoKey ELSE potential_keys[Min(found)]

\* isinstance(value, list) and len(value) > 0 and isinstance(value[0], dict)
\* and ("link" in value[0] or "url" in value[0])
LooksLikeResults(value) ==
    /\ value.islist
    /\ Len(value.items) > 0
    /\ value.items[1].isdict
    /\ (HasKey(value.items[1].fields, "link") \/ HasKey(value.items[1].fields, "url"))

\* for key, value in results.items(): the first key whose value looks like
\* results
AlternativeKey(results) ==
    LET found == {n \in 1..Len(results) : LooksLikeResults(results[n][2])}
    IN  IF found = {} THEN NoKey ELSE results[Min(found)][1]

OrganicKey(results) ==
    IF StandardKey(results) # NoKey THEN StandardKey(results)
    ELSE AlternativeKey(results)

\* url = item["link"], else item["url"], else item["displayed_link"], else
\* None
ItemUrl(item) ==
    IF HasKey(item.fields, "link") THEN Get(item.fields, "link")
    ELSE IF HasKey(item.fields, "url") THEN Get(item.fields, "url")
    ELSE IF HasKey(item.fields, "displayed_link") THEN Get(item.fields, "displayed_link")
    ELSE EmptyUrl

\* "link" in item raises TypeError for an item that is no container
ItemRaises(item) == ~item.isdict

\* if url:
Truthy(url) == url # EmptyUrl

\* The loop over results[organic_key] raises at some item.
ExtractionRaises(results) ==
    LET items == Get(results, OrganicKey(results)).items
    IN  \E n \in 1..Len(items) : ItemRaises(items[n])

\* The URLs the loop over results[organic_key] appends when no item raises.
ExtractUrls(results) ==
    LET items == Get(results, OrganicKey(results)).items
    IN  SelectSeq([n \in 1..Len(items) |-> ItemUrl(items[n])], Truthy)

\* ext = tldextract.extract(url); ext.domain + '.' + ext.suffix: the URLs
\* 2d - 1 and 2d are two pages of the domain d.
ExtractDomain(url) == (url + 1) \div 2

\* get_serp_comp(results)
GetSerpComp(results) ==
    IF HasKey(results, "error") THEN <<>>
    ELSE IF OrganicKey(results) = NoKey THEN <<>>
    ELSE IF ExtractionRaises(results) THEN <<>>
    ELSE LET urls == ExtractUrls(results)
         IN  [n \in 1..Len(urls) |-> ExtractDomain(urls[n])]

JsonList(items) == [islist |-> TRUE, items |-> items]

JsonOther == [islist |-> FALSE, items |-> <<>>]

JsonObject(fields) == [isdict |-> TRUE, fields |-> fields]

JsonNumber == [isdict |-> FALSE, fields |-> <<>>]

\* What serp() can return (app.py 26-56): the parsed body of the reply, or
\* {"error": ...}.
SerpResponses ==
    { \* results under the standard key
      << <<"organic_results",
           JsonList(<< JsonObject(<< <<"link", 1>> >>),
                       JsonObject(<< <<"url", 2>>, <<"displayed_link", 1>> >>) >>)>> >>,
      \* a standard key that holds no list, results under a later standard
      \* key; an empty link, an item without a URL field
      << <<"results", JsonOther>>,
         <<"organic",
           JsonList(<< JsonObject(<< <<"displayed_link", 2>> >>),
                       JsonObject(<< <<"link", EmptyUrl>>, <<"url", 1>> >>),
                       JsonObject(<< <<"title", 1>> >>) >>)>> >>,
      \* results under a key that is not standard
      << <<"search_metadata", JsonOther>>,
         <<"news", JsonList(<< JsonObject(<< <<"url", 2>> >>) >>)>> >>,
      \* an API error
      << <<"error", JsonOther>> >>,
      \* no recognisable results key
      << <<"search_information", JsonOther>>,
         <<"items", JsonList(<< JsonObject(<< <<"title", 1>> >>) >>)>> >>,
      \* an item that is no object: the extraction raises
      << <<"organic_results",
           JsonList(<< JsonObject(<< <<"link", 1>> >>), JsonNumber >>)>> >> }

(***************************************************************************)
(* The "Analyze" handler (app.py 232-366).                                 *)
(***************************************************************************)
\* One iteration of the loop at 239 with comp_type "Domain only" (246-247,
\* 301).
DomainKeyword ==
    /\ pc = "loop"
    /\ kw_done < Len(keywords)
    /\ comp_type = "Domain only"
    /\ \E results \in SerpResponses :
           /\ responses' = Append(responses, results)
           /\ serp_comp_list' = Append(serp_comp_list, GetSerpComp(results))
    /\ kw_done' = kw_done + 1
    /\ UNCHANGED <<pc, keywords, comp_type, df, diffsVars, smVars>>

\* One iteration with comp_type "Full URL" that reaches the append at 301.
UrlKeyword ==
    /\ pc = "loop"
    /\ kw_done < Len(keywords)
    /\ comp_type = "Full URL"
    /\ \E results \in SerpResponses :
           /\ OrganicKey(results) # NoKey
           /\ ~ExtractionRaises(results)
           /\ responses' = Append(responses, results)
           /\ serp_comp_list' = Append(serp_comp_list, ExtractUrls(results))
    /\ kw_done' = kw_done + 1
    /\ UNCHANGED <<pc, keywords, comp_type, df, diffsVars, smVars>>

\* One iteration with comp_type "Full URL" that finds no results key: the
\* "continue" at 281 goes to the next keyword.
UrlNoKey ==
    /\ pc = "loop"
    /\ kw_done < Len(keywords)
    /\ comp_type = "Full URL"
    /\ \E results \in SerpResponses :
           /\ OrganicKey(results) = NoKey
           /\ responses' = Append(responses, results)
    /\ kw_done' = kw_done + 1
    /\ UNCHANGED <<pc, keywords, comp_type, serp_comp_list, df, diffsVars, smVars>>

\* One iteration with comp_type "Full URL" whose extraction raises: the
\* "continue" at 299 goes to the next keyword.
UrlException ==
    /\ pc = "loop"
    /\ kw_done < Len(keywords)
    /\ comp_type = "Full URL"
    /\ \E results \in SerpResponses :
           /\ OrganicKey(results) # NoKey
           /\ ExtractionRaises(results)
           /\ responses' = Append(responses, results)
    /\ kw_done' = kw_done + 1
    /\ UNCHANGED <<pc, keywords, comp_type, serp_comp_list, df, diffsVars, smVars>>

\* serp_comp_keyword = get_keyword_serp_diffs(serp_comp_list) (305)
CallDiffs ==
    /\ pc = "loop"
    /\ kw_done = Len(keywords)
    /\ pc' = "diffs"
    /\ serp_comp' = serp_comp_list
    /\ x_done' = 0
    /\ diffs' = <<>>
    /\ keyword_diffs' = <<>>
    /\ UNCHANGED <<scores, handlerVars, smVars>>

\* df = pd.DataFrame({'Keyword': keywords, ...: serp_comp_keyword}) (308-311)
\* with two columns of one length
BuildFrame ==
    /\ pc = "returned"
    /\ Len(scores) = Len(keywords)
    /\ df' = [n \in 1..Len(keywords) |->
                [Keyword |-> keywords[n], Similarity |-> scores[n]]]
    /\ pc' = "shown"
    /\ UNCHANGED <<keywords, comp_type, kw_done, responses, serp_comp_list,
                   diffsVars, smVars>>

\* pd.DataFrame raises ValueError for columns of different lengths; the
\* except at 365 reports it and nothing is shown.
FrameError ==
    /\ pc = "returned"
    /\ Len(scores) # Len(keywords)
    /\ pc' = "error"
    /\ UNCHANGED <<handlerVars, diffsVars, smVars>>

Next ==
    \/ DomainKeyword
    \/ UrlKeyword
    \/ UrlNoKey
    \/ UrlException
    \/ CallDiffs
    \/ KeywordMean
    \/ KeywordFallback
    \/ ReturnScores
    \/ BuildFrame
    \/ FrameError


HandlerIdle ==
    /\ keywords = <<>>
    /\ comp_type = "Domain only"
    /\ kw_done = 0
    /\ responses = <<>>
    /\ serp_comp_list = <<>>
    /\ df = <<>>

DiffsIdle ==
    /\ serp_comp = <<>>
    /\ x_done = 0
    /\ diffs = <<>>
    /\ keyword_diffs = <<>>
    /\ scores = <<>>

SmIdle ==
    /\ sm_a = <<>>
    /\ sm_b = <<>>
    /\ sm_bpopular = {}
    /\ sm_blocks = <<>>
    /\ sm_ratio = FZero

\* get_keyword_serp_diffs called on any batch within the bounds
InitDiffs ==
    /\ pc = "diffs"
    /\ serp_comp \in Batches
    /\ x_done = 0
    /\ diffs = <<>>
    /\ keyword_diffs = <<>>
    /\ scores = <<>>
    /\ HandlerIdle
    /\ SmIdle

SpecDiffs == InitDiffs /\ [][NextDiffs]_vars

\* the matcher built on any two short sequences, or on a long sequence and
\* itself
InitRatio ==
    /\ pc = "sm_new"
    /\ \E p \in (ShortSeqs \X ShortSeqs) \cup {<<l, l>> : l \in LongSeqs} :
           /\ sm_a = p[1]
           /\ sm_b = p[2]
    /\ sm_bpopular = {}
    /\ sm_blocks = <<>>
    /\ sm_ratio = FZero
    /\ HandlerIdle
    /\ DiffsIdle

SpecRatio == InitRatio /\ [][NextRatio]_vars

\* The button is enabled only with at least one keyword (app.py 220); the
\* keywords are abstracted to their positions.
Init ==
    /\ pc = "loop"
    /\ keywords \in {[n \in 1..len |-> n] : len \in 1..MaxKeywords}
    /\ comp_type \in {"Domain only", "Full URL"}
    /\ kw_done = 0
    /\ responses = <<>>
    /\ serp_comp_list = <<>>
    /\ df = <<>>
    /\ DiffsIdle
    /\ SmIdle

Spec == Init /\ [][Next]_vars

(***************************************************************************)
(* The claims, each stated over the runs of the specification it names.    *)
(***************************************************************************)
\* The ratios of the sequence at position xi against the sequence at every
\* other position, in position order, from position n on.
RECURSIVE PeerRatios(_, _, _)
PeerRatios(sc, xi, n) ==
    IF n > Len(sc) THEN <<>>
    ELSE (IF n # xi THEN <<SmRatioOf(sc[xi], sc[n])>> ELSE <<>>)
         \o PeerRatios(sc, xi, n + 1)

\* C1: for every batch and every index i, the ratios averaged for keyword i
\* are exactly one ratio(sequences[i], sequences[j]) for each index j # i,
\* a peer whose sequence equals sequences[i] included.
C1_EveryPeerCompared ==
    (pc = "diffs" /\ x_done > 0) => diffs = PeerRatios(serp_comp, x_done, 1)

NoRepeats(s) == \A m, n \in 1..Len(s) : s[m] = s[n] => m = n

\* the tokens s and t share come in one order in both
SameOrder(s, t) ==
    \A m, n \in 1..Len(s) : \A p, q \in 1..Len(t) :
        (m < n /\ s[m] = t[p] /\ s[n] = t[q]) => p < q

\* C2 as stated: the ratio is symmetric, ratio(a, b) = ratio(b, a) for all
\* token sequences a and b.
C2_Symmetric ==
    pc = "sm_done" => sm_ratio = Ratio(sm_b, sm_a)

\* C2 amended: ratio(a, b) = ratio(b, a) whenever neither sequence repeats a
\* token and the tokens the two share come in the same order in both.
C2_SymmetricWhenOrdersAgree ==
    (pc = "sm_done" /\ NoRepeats(sm_a) /\ NoRepeats(sm_b) /\ SameOrder(sm_a, sm_b))
        => sm_ratio = Ratio(sm_b, sm_a)

C2_Witness ==
    /\ pc = "sm_done"
    /\ sm_a = <<1, 2>>
    /\ sm_b = <<2, 3>>
    /\ sm_ratio = FFromRatio(1, 2)

\* the sequence at position k has no token in common with any other one
SharesNothing(sc, k) ==
    \A n \in 1..Len(sc) : n # k => Range(sc[k]) \cap Range(sc[n]) = {}

\* C3 as stated: in a batch of two or more keywords, a keyword whose
\* sequence has no token in common with any other keyword's sequence gets
\* score 0, empty sequences included.
C3_DisjointScoresZero ==
    (pc = "returned" /\ Len(serp_comp) >= 2)
        => \A k \in 1..Len(serp_comp) :
               SharesNothing(serp_comp, k) => scores[k] = 0

\* C3 amended: such a keyword gets score 0 provided some sequence of the
\* batch is not empty.
C3_DisjointScoresZeroUnlessAllEmpty ==
    (pc = "returned" /\ Len(serp_comp) >= 2)
        => \A k \in 1..Len(serp_comp) :
               (/\ SharesNothing(serp_comp, k)
                /\ \E n \in 1..Len(serp_comp) : serp_comp[n] # <<>>)
                   => scores[k] = 0

C3_Witness ==
    /\ pc = "returned"
    /\ serp_comp = << <<1>>, <<2, 2>>, <<>> >>
    /\ scores = <<0, 0, 0>>

\* C4: get_keyword_serp_diffs returns exactly one score per sequence of the
\* batch, and the score at position k is the one computed for the sequence
\* at position k.
C4_LengthAndOrderPreserved ==
    pc = "returned"
        => /\ Len(scores) = Len(serp_comp)
           /\ \A k \in 1..Len(serp_comp) :
                  scores[k] = PercentOf(KeywordDiff(serp_comp, k))

C4_Witness ==
    /\ pc = "returned"
    /\ serp_comp = << <<1, 2>>, <<1, 1>>, <<1>> >>
    /\ Len(scores) = 3
    /\ scores[1] # scores[3]

\* C5: for a batch of a single sequence get_keyword_serp_diffs returns
\* [100] whatever the sequence holds, through the fallback value 1.
C5_SingleSequenceScores100 ==
    (pc = "returned" /\ Len(serp_comp) = 1)
        => /\ keyword_diffs = <<PyInt(1)>>
           /\ scores = <<100>>

C5_Witness ==
    /\ pc = "returned"
    /\ serp_comp = << <<>> >>
    /\ scores = <<100>>

\* C6: when all N >= 2 sequences of the batch are the same, every score is
\* 100.
C6_IdenticalSequencesScore100 ==
    (/\ pc = "returned"
     /\ Len(serp_comp) >= 2
     /\ \A n \in 1..Len(serp_comp) : serp_comp[n] = serp_comp[1])
        => \A n \in 1..Len(scores) : scores[n] = 100

C6_Witness ==
    /\ pc = "returned"
    /\ serp_comp = << <<1, 2>>, <<1, 2>>, <<1, 2>> >>
    /\ scores = <<100, 100, 100>>

\* the doubles nearest to the decimals 0.00, 0.01, ..., 1.00
Hundredths == [k \in 0..100 |-> FFromRatio(k, 100)] @@ <<>>

\* floor(r * 100) for r the decimal k/100 a rounded mean stands for, or for
\* r the int 1
FloorOfHundredfold(v) ==
    IF v.type = "int" THEN v.val * 100
    ELSE CHOOSE k \in 0..100 : Hundredths[k] = v.val

\* C7: every score is an integer in [0, 100] equal to floor(r * 100), where
\* r is the mean of the keyword's ratios rounded to 2 decimal places, or 1
\* when there is no ratio to average.
C7_ScoreIsFloorOfRoundedMean ==
    pc = "returned"
        => \A n \in 1..Len(scores) :
               /\ scores[n] \in 0..100
               /\ scores[n] = FloorOfHundredfold(keyword_diffs[n])

\* the blocks are runs of equal elements, in increasing order in both
\* sequences and not overlapping
BlocksAreMatches(a, b, blocks) ==
    \A n \in 1..Len(blocks) :
        /\ \A t \in 1..blocks[n].k : a[blocks[n].i + t] = b[blocks[n].j + t]
        /\ n > 1 => /\ blocks[n - 1].i + blocks[n - 1].k <= blocks[n].i
                    /\ blocks[n - 1].j + blocks[n - 1].k <= blocks[n].j

\* C8: the ratio of two empty sequences is 1.0; the ratio of an empty and a
\* non-empty sequence is 0.0 in either order; for all other inputs the
\* ratio is 2 * matched_length / (len(a) + len(b)) and lies in [0, 1].
C8_RatioFormulaAndEdgeCases ==
    pc = "sm_done"
        => IF sm_a = <<>> /\ sm_b = <<>> THEN sm_ratio = FFromNat(1)
           ELSE IF sm_a = <<>> \/ sm_b = <<>> THEN sm_ratio = FZero
           ELSE /\ BlocksAreMatches(sm_a, sm_b, sm_blocks)
                /\ sm_ratio = FFromRatio(2 * SumSizes(sm_blocks, 1),
                                         Len(sm_a) + Len(sm_b))
                /\ FLeq(FZero, sm_ratio)
                /\ FLeq(sm_ratio, FFromNat(1))

C8_Witness ==
    /\ pc = "sm_done"
    /\ sm_a = <<1, 2, 3>>
    /\ sm_b = <<2, 3>>
    /\ sm_ratio = FFromRatio(4, 5)

\* C9: ratio(a, a) = 1.0 for every non-empty sequence a, of any length and
\* with any number of repeated tokens, with the matcher's automatic
\* popular-token heuristic on.
C9_Reflexive ==
    (pc = "sm_done" /\ sm_a = sm_b /\ sm_a # <<>>) => sm_ratio = FFromNat(1)

C9_Witness ==
    /\ pc = "sm_done"
    /\ sm_a = sm_b
    /\ Len(sm_a) >= AutojunkMinLen
    /\ sm_bpopular # {}
    /\ Cardinality(Range(sm_a)) >= 2
    /\ sm_ratio = FFromNat(1)

\* the sequence that stands for a keyword whose response is results: what
\* is extracted from it, or the empty sequence when nothing can be
Extracted(ct, results) ==
    IF ct = "Domain only" THEN GetSerpComp(results)
    ELSE IF OrganicKey(results) = NoKey \/ ExtractionRaises(results) THEN <<>>
    ELSE ExtractUrls(results)

\* C10: after the loop, for every sequence of fetch outcomes and for both
\* comparison types, the list handed to get_keyword_serp_diffs holds exactly
\* one result sequence per keyword, in keyword order, an empty sequence
\* standing in for a keyword whose results could not be extracted; hence
\* the scores are as many as the keywords and score n is paired with
\* keyword n.
C10_OneSequencePerKeyword ==
    /\ pc \in {"diffs", "returned", "shown", "error"}
           => /\ Len(serp_comp) = Len(keywords)
              /\ \A n \in 1..Len(keywords) :
                     serp_comp[n] = Extracted(comp_type, responses[n])
    /\ pc \in {"returned", "shown", "error"} => Len(scores) = Len(keywords)
    /\ pc = "shown"
           => \A n \in 1..Len(keywords) :
                  df[n] = [Keyword |-> keywords[n], Similarity |-> scores[n]]
    /\ pc # "error"

====
